---- MODULE Spec2Model ----
\* Model of backend/teleinfo.py: the Teleinfo module of cleepmod-teleinfo.
\* One Teleinfo instance, the persistent configuration file it is given, the
\* periodic task that polls the dongle, and the bus events it receives.
EXTENDS Integers, Sequences, FiniteSets, TLC

\* ------------------------------------------------------- python values
\* An optional value: <<>> is None, <<v>> is the value v.
None == <<>>
Some(v) == <<v>>
IsNone(o) == o = <<>>
Get(o) == o[1]

\* A dict with no key.
EmptyDict == <<>>

\* u'...' strings are sequences of characters, so that int() has to parse them.
Digits == {"0", "1", "2", "3", "4", "5", "6", "7", "8", "9"}

DigitValue(c) ==
    CASE c = "0" -> 0 [] c = "1" -> 1 [] c = "2" -> 2 [] c = "3" -> 3
      [] c = "4" -> 4 [] c = "5" -> 5 [] c = "6" -> 6 [] c = "7" -> 7
      [] c = "8" -> 8 [] c = "9" -> 9

RECURSIVE DigitsValue(_)
DigitsValue(s) ==
    IF s = <<>> THEN 0
    ELSE 10 * DigitsValue(SubSeq(s, 1, Len(s) - 1)) + DigitValue(s[Len(s)])

\* Python's int(text): an optional sign followed by at least one decimal digit;
\* anything else raises ValueError (ok = FALSE).
int(s) ==
    LET signed == Len(s) > 0 /\ s[1] \in {"-", "+"}
        body   == IF signed THEN Tail(s) ELSE s
    IN  IF Len(body) > 0 /\ \A i \in 1..Len(body) : body[i] \in Digits
        THEN [ok |-> TRUE,
              value |-> IF signed /\ s[1] = "-" THEN 0 - DigitsValue(body)
                        ELSE DigitsValue(body)]
        ELSE [ok |-> FALSE, value |-> 0]

\* ------------------------------------------------------ class constants
VA_FACTOR == 220

KEY_PLEINES == "previousconsoheurespleines"
KEY_CREUSES == "previousconsoheurescreuses"

\* DEFAULT_CONFIG: both previous consumptions start as None.
DEFAULT_CONFIG == [k \in {KEY_PLEINES, KEY_CREUSES} |-> None]

\* Labels of the tariff schemes, in the order the task tests them.
HCHC_KEYS  == {"HCHC", "HCHP"}
EJP_KEYS   == {"EJPHN", "EJPHPM"}
TEMPO_KEYS == {"BBRHCJB", "BBRHPJB", "BBRHCJW", "BBRHPJW", "BBRHCJR", "BBRHPJR"}
BASE_KEYS  == {"BASE"}
PAPP_KEYS  == {"PAPP"}

\* ------------------------------------------------------------- inputs
\* The text the dongle usually delivers for each label, as the parser returns it.
Usual(label) ==
    CASE label = "HCHC"    -> <<"1","0">>
      [] label = "HCHP"    -> <<"2","0">>
      [] label = "EJPHN"   -> <<"0","3","0">>
      [] label = "EJPHPM"  -> <<"4","0">>
      [] label = "BBRHCJB" -> <<"1","0">>
      [] label = "BBRHCJW" -> <<"2","0">>
      [] label = "BBRHCJR" -> <<"3","0">>
      [] label = "BBRHPJB" -> <<"1">>
      [] label = "BBRHPJW" -> <<"2">>
      [] label = "BBRHPJR" -> <<"3">>
      [] label = "BASE"    -> <<"5","0">>
      [] label = "PAPP"    -> <<"1","0","0","0">>
      [] label = "PTEC"    -> <<"H","C",".",".">>
      [] label = "DEMAIN"  -> <<"B","L","E","U">>

\* Other texts a label may carry: another reading, a negative one, and texts
\* int() rejects.
Unusual(label) ==
    CASE label = "HCHC"    -> {<<"6","2","0">>, <<"x">>}
      [] label = "HCHP"    -> {<<"x">>}
      [] label = "EJPHPM"  -> {<<>>}
      [] label = "BBRHCJR" -> {<<"3","x">>}
      [] label = "BBRHPJR" -> {<<"+","4">>}
      [] label = "BASE"    -> {<<"-","5">>}
      [] label = "PAPP"    -> {<<"1","k">>}
      [] OTHER             -> {}

\* Sets of labels a frame may hold: every scheme alone, schemes together,
\* schemes with one of their labels missing, with and without PAPP and modes.
KeySets ==
    { {},
      HCHC_KEYS, {"HCHP"} \cup BASE_KEYS, HCHC_KEYS \cup BASE_KEYS,
      EJP_KEYS, HCHC_KEYS \cup EJP_KEYS, EJP_KEYS \cup TEMPO_KEYS,
      TEMPO_KEYS, TEMPO_KEYS \cup BASE_KEYS,
      (TEMPO_KEYS \ {"BBRHCJB"}) \cup BASE_KEYS,
      BASE_KEYS, BASE_KEYS \cup PAPP_KEYS, HCHC_KEYS \cup PAPP_KEYS,
      {"PTEC"} }
    \cup {PAPP_KEYS \cup m : m \in SUBSET {"PTEC", "DEMAIN"}}

\* The frames Parser.get_frame() may return, dicts label -> text: over each
\* set of labels, the usual frame and the frames one label away from it.
Frames ==
    UNION { {[k \in ks |-> Usual(k)]}
            \cup UNION { {[k \in ks |-> IF k = l THEN v ELSE Usual(k)] :
                             v \in Unusual(l)} : l \in ks }
          : ks \in KeySets }

\* Device paths glob finds under USB_PATH whose name holds TINFO (at most one
\* is used: devices[0]).
DevicePaths == {"/dev/serial/by-id/usb-TINFO"}

\* Exceptions raised by the code and its libraries, all subclasses of Exception.
ExceptionKinds == {"IOError", "ValueError", "KeyError", "TypeError", "AttributeError", "Exception"}

\* Previous consumptions the configuration file may hold when the process
\* starts: the defaults, or values written to the file.
StoredBaselines == {None, Some(500), Some(620)}

\* (hour, minute) pairs the clock collaborator may announce.
Hours   == {0, 12}
Minutes == {0, 30}
EventNames == {"parameters.time.now", "system.system.reboot"}

VARIABLES
    port,                       \* self.port: None or the device path
    teleinfo_task,              \* self.teleinfo_task: "None", "running", "stopped", "dead"
    teleinfo_uuid,              \* self.__teleinfo_uuid
    teleinfo_parser,            \* self.__teleinfo_parser is not None
    last_conso_heures_creuses,  \* self.__last_conso_heures_creuses
    last_conso_heures_pleines,  \* self.__last_conso_heures_pleines
    has_last_raw,               \* the instance has an attribute last_raw
    last_raw,                   \* self.last_raw (when has_last_raw)
    config_file,                \* content of teleinfo.conf (persistent)
    device_count,               \* number of devices of the module (persistent)
    module_state,               \* "constructed", "configured", "failed", "stopped"
    pc,                         \* position of the running _teleinfo_task call
    cycle,                      \* what the current/last _teleinfo_task call did:
                                \* its state, whether it read the dongle, whether
                                \* it was given a frame, the branch it took
    power_events,               \* power events sent by the current/last task call
    consumption_events,         \* consumption events sent on the bus so far
    call_result,                \* outcome of the last event_received / get_teleinfo call
    in_midnight                 \* the last time notification was (0, 0)

vars == <<port, teleinfo_task, teleinfo_uuid, teleinfo_parser,
          last_conso_heures_creuses, last_conso_heures_pleines,
          has_last_raw, last_raw, config_file, device_count, module_state,
          pc, cycle, power_events, consumption_events, call_result,
          in_midnight>>

memory == <<port, teleinfo_task, teleinfo_uuid, teleinfo_parser,
            last_conso_heures_creuses, last_conso_heures_pleines,
            has_last_raw, last_raw>>
persistent == <<config_file, device_count>>
clock == <<in_midnight>>

\* No call has returned anything yet / the last operation was not a call.
NoResult == [kind |-> "none", value |-> EmptyDict]
\* A task call that has not read anything.
NoCycle == [state |-> "none", read |-> FALSE, decoded |-> FALSE, scheme |-> "none"]

\* Teleinfo.__init__: the members of a fresh instance.
Constructed ==
    /\ port = None
    /\ teleinfo_task = "None"
    /\ teleinfo_uuid = None
    /\ teleinfo_parser = FALSE
    /\ last_conso_heures_creuses = 0
    /\ last_conso_heures_pleines = 0
    /\ has_last_raw = FALSE
    /\ last_raw = EmptyDict
    /\ module_state = "constructed"
    /\ pc = "idle"
    /\ cycle = NoCycle
    /\ power_events = <<>>
    /\ call_result = NoResult

Init ==
    /\ Constructed
    /\ config_file \in {[k \in DOMAIN DEFAULT_CONFIG |-> b] : b \in StoredBaselines}
    /\ device_count \in {0, 1}
    /\ consumption_events = <<>>
    /\ in_midnight = FALSE

\* --------------------------------------------------------- configuration
\* `if self.port:` - None and the empty text are false.
Truthy(o) == ~IsNone(o) /\ Get(o) # ""

\* What a call of Parser.get_frame() does: returns a frame or raises.
FrameErrors == {"IOError", "Exception"}
ReadOutcomes ==
    {[exc |-> None, frame |-> f] : f \in Frames}
    \cup {[exc |-> Some(e), frame |-> EmptyDict] : e \in FrameErrors}

\* Variant: a failed read is swallowed and answered with {}.
get_teleinfo_raw_data_swallowing(parser, outcome) ==
    IF parser /\ IsNone(outcome.exc) THEN outcome
    ELSE [exc |-> None, frame |-> EmptyDict]

\* _get_teleinfo_raw_data: the parser's frame, or {} when there is no parser.
_get_teleinfo_raw_data(parser, outcome) ==
    IF parser THEN outcome ELSE [exc |-> None, frame |-> EmptyDict]

\* __configure_hardware: found is devices[0] or None when glob finds nothing;
\* parser_ok is whether Parser(UTInfo2(port)) is built without raising.
configure_hardware(found, parser_ok) ==
    IF IsNone(found)
    THEN [port |-> port, parser |-> teleinfo_parser, result |-> FALSE]
    ELSE IF parser_ok
         THEN [port |-> found, parser |-> TRUE, result |-> TRUE]
         ELSE [port |-> found, parser |-> teleinfo_parser, result |-> FALSE]

\* _start_teleinfo_task: a Task is created and started only when there is none.
_start_teleinfo_task(task) == IF task = "None" THEN "running" ELSE task

\* _stop_teleinfo_task: the Task, if any, is stopped; the member keeps it.
_stop_teleinfo_task(task) == IF task # "None" THEN "stopped" ELSE task

\* _configure: registers the device, configures the hardware, reads a first
\* frame when the hardware is there, and starts the task. An exception raised
\* on the way leaves _configure before the task is started.
Configure(found, parser_ok, outcome) ==
    /\ module_state = "constructed"
    /\ LET count == IF device_count = 0 THEN 1 ELSE device_count
           hw    == configure_hardware(found, parser_ok)
           first == _get_teleinfo_raw_data(hw.parser, outcome)
       IN  /\ device_count' = count
           /\ IF count # 1
              THEN /\ module_state' = "failed"
                   /\ UNCHANGED <<port, teleinfo_parser, teleinfo_uuid,
                                  has_last_raw, last_raw, teleinfo_task>>
              ELSE /\ teleinfo_uuid' = Some("uuid")
                   /\ port' = hw.port
                   /\ teleinfo_parser' = hw.parser
                   /\ IF hw.result /\ ~IsNone(first.exc)
                      THEN /\ module_state' = "failed"
                           /\ UNCHANGED <<has_last_raw, last_raw, teleinfo_task>>
                      ELSE /\ module_state' = "configured"
                           /\ has_last_raw' = (has_last_raw \/ hw.result)
                           /\ last_raw' = IF hw.result THEN first.frame ELSE last_raw
                           /\ teleinfo_task' = _start_teleinfo_task(teleinfo_task)
    /\ call_result' = NoResult
    /\ UNCHANGED <<last_conso_heures_creuses, last_conso_heures_pleines,
                   config_file, pc, cycle, power_events, consumption_events, clock>>

\* _stop: the module is stopped.
Stop ==
    /\ module_state = "configured"
    /\ module_state' = "stopped"
    /\ teleinfo_task' = _stop_teleinfo_task(teleinfo_task)
    /\ call_result' = NoResult
    /\ UNCHANGED <<port, teleinfo_uuid, teleinfo_parser,
                   last_conso_heures_creuses, last_conso_heures_pleines,
                   has_last_raw, last_raw, persistent, pc, cycle, power_events,
                   consumption_events, clock>>

\* _restart_teleinfo_task: _stop_teleinfo_task then _start_teleinfo_task.
RestartTeleinfoTask ==
    /\ module_state = "configured"
    /\ teleinfo_task' = _start_teleinfo_task(_stop_teleinfo_task(teleinfo_task))
    /\ call_result' = NoResult
    /\ UNCHANGED <<port, teleinfo_uuid, teleinfo_parser,
                   last_conso_heures_creuses, last_conso_heures_pleines,
                   has_last_raw, last_raw, persistent, module_state, pc, cycle,
                   power_events, consumption_events, clock>>

\* The process ends and a new one constructs the module again: the members
\* are those of __init__, the configuration file and the bus history remain.
Restart ==
    /\ port' = None
    /\ teleinfo_task' = "None"
    /\ teleinfo_uuid' = None
    /\ teleinfo_parser' = FALSE
    /\ last_conso_heures_creuses' = 0
    /\ last_conso_heures_pleines' = 0
    /\ has_last_raw' = FALSE
    /\ last_raw' = EmptyDict
    /\ module_state' = "constructed"
    /\ pc' = "idle"
    /\ cycle' = NoCycle
    /\ power_events' = <<>>
    /\ call_result' = NoResult
    /\ UNCHANGED <<persistent, consumption_events, clock>>

\* ------------------------------------------------------------ poll cycle
\* Variant: the chain tests BASE before the other schemes.
Scheme_BaseFirst(keys) ==
    IF BASE_KEYS \subseteq keys THEN "base"
    ELSE IF HCHC_KEYS \subseteq keys THEN "hchc"
    ELSE IF EJP_KEYS \subseteq keys THEN "ejp"
    ELSE IF TEMPO_KEYS \subseteq keys THEN "tempo"
    ELSE "none"

\* The if/elif chain of _teleinfo_task over the labels of the frame.
Scheme(keys) ==
    IF HCHC_KEYS \subseteq keys THEN "hchc"
    ELSE IF EJP_KEYS \subseteq keys THEN "ejp"
    ELSE IF TEMPO_KEYS \subseteq keys THEN "tempo"
    ELSE IF BASE_KEYS \subseteq keys THEN "base"
    ELSE "none"

\* Variant: the third counter is left out of the sum.
Sum3_TwoTerms(a, b, c) ==
    [ok |-> a.ok /\ b.ok /\ c.ok, value |-> a.value + b.value]

\* a + b + c over int() results: the first ValueError ends the expression.
Sum3(a, b, c) ==
    [ok |-> a.ok /\ b.ok /\ c.ok, value |-> a.value + b.value + c.value]

\* Right-hand side of the assignment to __last_conso_heures_creuses.
CreusesOf(raw, scheme) ==
    CASE scheme = "hchc"  -> int(raw["HCHC"])
      [] scheme = "ejp"   -> int(raw["EJPHN"])
      [] scheme = "tempo" -> Sum3(int(raw["BBRHCJB"]), int(raw["BBRHCJW"]),
                                  int(raw["BBRHCJR"]))
      [] scheme = "base"  -> int(raw["BASE"])

\* Variant: the Base branch leaves the peak counter as it is.
PleinesOf_BaseKeeps(raw, scheme) ==
    CASE scheme = "hchc"  -> int(raw["HCHP"])
      [] scheme = "ejp"   -> int(raw["EJPHPM"])
      [] scheme = "tempo" -> Sum3(int(raw["BBRHPJB"]), int(raw["BBRHPJW"]),
                                  int(raw["BBRHPJR"]))
      [] scheme = "base"  -> [ok |-> TRUE, value |-> last_conso_heures_pleines]

\* Right-hand side of the assignment to __last_conso_heures_pleines.
PleinesOf(raw, scheme) ==
    CASE scheme = "hchc"  -> int(raw["HCHP"])
      [] scheme = "ejp"   -> int(raw["EJPHPM"])
      [] scheme = "tempo" -> Sum3(int(raw["BBRHPJB"]), int(raw["BBRHPJW"]),
                                  int(raw["BBRHPJR"]))
      [] scheme = "base"  -> [ok |-> TRUE, value |-> 0]

\* Variant: `except ValueError`.
TaskCatches_ValueErrorOnly(kind) == kind = "ValueError"

\* `except Exception`: the exceptions the task's handler catches and logs.
TaskCatches(kind) == kind \in ExceptionKinds

\* How a task call ends when `kind` is raised inside it.
RaisedState(kind) == IF TaskCatches(kind) THEN "exception" ELSE "escaped"

\* The Task thread ends when its callback lets an exception out.
TaskAfter(task, state) == IF state = "escaped" THEN "dead" ELSE task

\* Variant: the task does not test the port.
PortEnabled_Always == TRUE

\* `if self.port:` of _teleinfo_task.
PortEnabled == Truthy(port)

\* The task call from its start to the first counter assignment:
\* the port test, the read of the frame, the choice of the scheme and the
\* assignment of __last_conso_heures_creuses.
TaskRead(outcome) ==
    LET r      == _get_teleinfo_raw_data(teleinfo_parser, outcome)
        scheme == Scheme(DOMAIN r.frame)
        c      == CreusesOf(r.frame, scheme)
        idle   == [raw_set |-> FALSE, creuses_set |-> FALSE, pc |-> "idle",
                   state |-> "done", read |-> FALSE, scheme |-> "none"]
    IN  IF ~PortEnabled THEN idle
        ELSE IF ~IsNone(r.exc)
        THEN [idle EXCEPT !.state = RaisedState(Get(r.exc)), !.read = TRUE]
        ELSE IF r.frame = EmptyDict
        THEN [idle EXCEPT !.raw_set = TRUE, !.read = teleinfo_parser]
        ELSE IF scheme = "none"
        THEN [idle EXCEPT !.raw_set = TRUE, !.read = teleinfo_parser,
                          !.pc = "intensity", !.state = "running"]
        ELSE IF ~c.ok
        THEN [idle EXCEPT !.raw_set = TRUE, !.read = teleinfo_parser,
                          !.scheme = scheme, !.state = RaisedState("ValueError")]
        ELSE [idle EXCEPT !.raw_set = TRUE, !.read = teleinfo_parser,
                          !.scheme = scheme, !.creuses_set = TRUE,
                          !.pc = "pleines", !.state = "running"]

\* A tick of the Task: _teleinfo_task starts (one call at a time).
TeleinfoTask(outcome) ==
    /\ teleinfo_task = "running"
    /\ pc = "idle"
    /\ LET t == TaskRead(outcome)
           r == _get_teleinfo_raw_data(teleinfo_parser, outcome)
       IN  /\ has_last_raw' = (has_last_raw \/ t.raw_set)
           /\ last_raw' = IF t.raw_set THEN r.frame ELSE last_raw
           /\ last_conso_heures_creuses' =
                 IF t.creuses_set THEN CreusesOf(r.frame, t.scheme).value
                 ELSE last_conso_heures_creuses
           /\ pc' = t.pc
           /\ cycle' = [state |-> t.state, read |-> t.read,
                        decoded |-> t.raw_set, scheme |-> t.scheme]
           /\ teleinfo_task' = TaskAfter(teleinfo_task, t.state)
    /\ power_events' = <<>>
    /\ call_result' = NoResult
    /\ UNCHANGED <<port, teleinfo_uuid, teleinfo_parser, last_conso_heures_pleines,
                   persistent, module_state, consumption_events, clock>>

\* The task call goes on: the assignment of __last_conso_heures_pleines.
TeleinfoTaskPleines ==
    /\ pc = "pleines"
    /\ LET p     == PleinesOf(last_raw, cycle.scheme)
           state == IF p.ok THEN "running" ELSE RaisedState("ValueError")
       IN  /\ last_conso_heures_pleines' =
                 IF p.ok THEN p.value ELSE last_conso_heures_pleines
           /\ pc' = IF p.ok THEN "intensity" ELSE "idle"
           /\ cycle' = [cycle EXCEPT !.state = state]
           /\ teleinfo_task' = TaskAfter(teleinfo_task, state)
    /\ call_result' = NoResult
    /\ UNCHANGED <<port, teleinfo_uuid, teleinfo_parser, last_conso_heures_creuses,
                   has_last_raw, last_raw, persistent, module_state, power_events,
                   consumption_events, clock>>

\* Variant: the power is PAPP itself.
PowerParams_NoFactor(raw, papp) ==
    [power       |-> papp,
     currentmode |-> IF "PTEC" \in DOMAIN raw THEN Some(raw["PTEC"]) ELSE None,
     nextmode    |-> IF "DEMAIN" \in DOMAIN raw THEN Some(raw["DEMAIN"]) ELSE None]

\* Variant: the two modes are taken from each other's label.
PowerParams_SwappedModes(raw, papp) ==
    [power       |-> papp * VA_FACTOR,
     currentmode |-> IF "DEMAIN" \in DOMAIN raw THEN Some(raw["DEMAIN"]) ELSE None,
     nextmode    |-> IF "PTEC" \in DOMAIN raw THEN Some(raw["PTEC"]) ELSE None]

\* params of the power event (lastupdate, the wall-clock time, is left out).
PowerParams(raw, papp) ==
    [power       |-> papp * VA_FACTOR,
     currentmode |-> IF "PTEC" \in DOMAIN raw THEN Some(raw["PTEC"]) ELSE None,
     nextmode    |-> IF "DEMAIN" \in DOMAIN raw THEN Some(raw["DEMAIN"]) ELSE None]

\* Variant: a missing PAPP is read as 0 (self.last_raw.get(u'PAPP', 0)).
PappValue_DefaultZero(raw) ==
    IF PAPP_KEYS \subseteq DOMAIN raw
    THEN [has |-> TRUE, parsed |-> int(raw["PAPP"])]
    ELSE [has |-> TRUE, parsed |-> [ok |-> TRUE, value |-> 0]]

\* The PAPP test and int(self.last_raw[u'PAPP']).
PappValue(raw) ==
    IF PAPP_KEYS \subseteq DOMAIN raw
    THEN [has |-> TRUE, parsed |-> int(raw["PAPP"])]
    ELSE [has |-> FALSE, parsed |-> [ok |-> TRUE, value |-> 0]]

\* The task call ends: the power event when the frame holds PAPP.
TeleinfoTaskIntensity ==
    /\ pc = "intensity"
    /\ LET has   == PappValue(last_raw).has
           papp  == PappValue(last_raw).parsed
           state == IF papp.ok THEN "done" ELSE RaisedState("ValueError")
       IN  /\ power_events' =
                 IF has /\ papp.ok
                 THEN <<[params |-> PowerParams(last_raw, papp.value),
                         device_id |-> teleinfo_uuid]>>
                 ELSE power_events
           /\ cycle' = [cycle EXCEPT !.state = state]
           /\ teleinfo_task' = TaskAfter(teleinfo_task, state)
    /\ pc' = "idle"
    /\ call_result' = NoResult
    /\ UNCHANGED <<port, teleinfo_uuid, teleinfo_parser,
                   last_conso_heures_creuses, last_conso_heures_pleines,
                   has_last_raw, last_raw, persistent, module_state,
                   consumption_events, clock>>

\* ------------------------------------------------------- bus and queries
\* _get_config as the class overrides it: a dict with the single key 'port'.
_get_config == [k \in {"port"} |-> port]

\* config[key]: the value, or KeyError when the dict has no such key.
Lookup(config, key) ==
    IF key \in DOMAIN config THEN [exc |-> None, value |-> config[key]]
    ELSE [exc |-> Some("KeyError"), value |-> None]

\* previous - last: TypeError when previous is None.
Minus(previous, last) ==
    IF IsNone(previous) THEN [exc |-> Some("TypeError"), value |-> 0]
    ELSE [exc |-> None, value |-> Get(previous) - last]

\* _update_config of the base class, given what event_received passes: a set
\* literal, which no mapping update accepts; only a dict is written.
_update_config(file, arg) ==
    IF arg.is_dict
    THEN [exc |-> None,
          file |-> [k \in DOMAIN file |->
                      IF k \in DOMAIN arg.items THEN Some(arg.items[k]) ELSE file[k]]]
    ELSE [exc |-> Some("Exception"), file |-> file]

\* The body of event_received at hour == 0 and minute == 0, statement by
\* statement; the first exception ends the call.
MidnightBody ==
    LET config   == _get_config
        prev_c   == Lookup(config, KEY_CREUSES)
        creuses  == Minus(prev_c.value, last_conso_heures_creuses)
        prev_p   == Lookup(config, KEY_PLEINES)
        pleines  == Minus(prev_p.value, last_conso_heures_pleines)
        event    == [params |-> [heurescreuses |-> creuses.value,
                                 heurespleines |-> pleines.value],
                     device_id |-> teleinfo_uuid]
        saved    == _update_config(config_file,
                       [is_dict |-> FALSE,
                        items |-> <<KEY_CREUSES, last_conso_heures_creuses,
                                    KEY_PLEINES, last_conso_heures_pleines>>])
        quiet(e) == [exc |-> e, sent |-> <<>>, file |-> config_file]
    IN  IF ~IsNone(prev_c.exc) THEN quiet(prev_c.exc)
        ELSE IF ~IsNone(creuses.exc) THEN quiet(creuses.exc)
        ELSE IF ~IsNone(prev_p.exc) THEN quiet(prev_p.exc)
        ELSE IF ~IsNone(pleines.exc) THEN quiet(pleines.exc)
        ELSE [exc |-> saved.exc, sent |-> <<event>>, file |-> saved.file]

\* The test of event_received on the event it is given.
IsMidnight(name, hour, minute) ==
    name = "parameters.time.now" /\ hour = 0 /\ minute = 0

\* event_received: an event of the bus reaches the module. The clock's minute
\* changes between a (0, 0) notification and any other time notification.
EventReceived(name, hour, minute) ==
    /\ module_state = "configured"
    /\ in_midnight' = IF name = "parameters.time.now"
                      THEN hour = 0 /\ minute = 0
                      ELSE in_midnight
    /\ IF IsMidnight(name, hour, minute)
       THEN LET b == MidnightBody
            IN  /\ consumption_events' = consumption_events \o b.sent
                /\ config_file' = b.file
                /\ call_result' =
                      [kind |-> IF IsNone(b.exc) THEN "returned" ELSE Get(b.exc),
                       value |-> EmptyDict]
       ELSE /\ call_result' = [kind |-> "returned", value |-> EmptyDict]
            /\ UNCHANGED <<consumption_events, config_file>>
    /\ UNCHANGED <<memory, device_count, module_state, pc, cycle, power_events>>

\* get_teleinfo: `return self.last_raw`; AttributeError when the attribute
\* was never assigned.
GetTeleinfo ==
    /\ module_state = "configured"
    /\ call_result' =
          IF has_last_raw THEN [kind |-> "returned", value |-> last_raw]
          ELSE [kind |-> "AttributeError", value |-> EmptyDict]
    /\ UNCHANGED <<memory, persistent, module_state, pc, cycle, power_events,
                   consumption_events, clock>>

\* ------------------------------------------------------------ behaviours
Next ==
    \/ \E found \in {None} \cup {Some(d) : d \in DevicePaths},
          parser_ok \in BOOLEAN, outcome \in ReadOutcomes :
            Configure(found, parser_ok, outcome)
    \/ Stop
    \/ RestartTeleinfoTask
    \/ Restart
    \/ \E outcome \in ReadOutcomes : TeleinfoTask(outcome)
    \/ TeleinfoTaskPleines
    \/ TeleinfoTaskIntensity
    \/ \E name \in EventNames, hour \in Hours, minute \in Minutes :
            EventReceived(name, hour, minute)
    \/ GetTeleinfo

Spec == Init /\ [][Next]_vars

\* ---------------------------------------------------------------- steps
\* A time notification with hour = 0 and minute = 0 is handled.
MidnightNotified == EventReceived("parameters.time.now", 0, 0)

\* Any event is handled.
EventStep ==
    \E name \in EventNames, hour \in Hours, minute \in Minutes :
        EventReceived(name, hour, minute)

\* A task call starts and get_frame() raises.
FrameErrorStep ==
    /\ PortEnabled
    /\ teleinfo_parser
    /\ \E e \in FrameErrors : TeleinfoTask([exc |-> Some(e), frame |-> EmptyDict])

\* Any step of a task call (a call that starts is given either a failed read
\* or the frame last_raw holds after the step).
TaskStep ==
    \/ /\ teleinfo_task = "running"
       /\ pc = "idle"
       /\ \/ TeleinfoTask([exc |-> None, frame |-> last_raw'])
          \/ \E e \in FrameErrors : TeleinfoTask([exc |-> Some(e), frame |-> EmptyDict])
    \/ TeleinfoTaskPleines
    \/ TeleinfoTaskIntensity

BaselinePresent ==
    ~IsNone(config_file[KEY_CREUSES]) /\ ~IsNone(config_file[KEY_PLEINES])

ConsumptionState ==
    <<last_conso_heures_creuses, last_conso_heures_pleines, config_file>>

RECURSIVE SumCreuses(_)
SumCreuses(events) ==
    IF events = <<>> THEN 0
    ELSE events[1].params.heurescreuses + SumCreuses(Tail(events))

RECURSIVE SumPleines(_)
SumPleines(events) ==
    IF events = <<>> THEN 0
    ELSE events[1].params.heurespleines + SumPleines(Tail(events))

\* --------------------------------------------------------------- claims
\* C1: at a midnight notification with a persisted baseline, one consumption
\* event is emitted whose deltas are last - baseline for both counters,
\* negative when the counter went back.
C1_DeltaIsLastMinusBaseline ==
    [][(MidnightNotified /\ BaselinePresent) =>
          /\ Len(consumption_events') = Len(consumption_events) + 1
          /\ consumption_events'[Len(consumption_events')].params =
                [heurescreuses |-> last_conso_heures_creuses
                                     - Get(config_file[KEY_CREUSES]),
                 heurespleines |-> last_conso_heures_pleines
                                     - Get(config_file[KEY_PLEINES])]]_vars

\* C2: at the first midnight notification, with no baseline persisted, the
\* handler returns without error, the event reports 0 and 0, and the
\* baselines become the last counters.
C2_FirstRollover ==
    [][(MidnightNotified /\ ~BaselinePresent) =>
          /\ call_result'.kind = "returned"
          /\ Len(consumption_events') = Len(consumption_events) + 1
          /\ consumption_events'[Len(consumption_events')].params =
                [heurescreuses |-> 0, heurespleines |-> 0]
          /\ config_file' = [k \in DOMAIN config_file |->
                               IF k = KEY_CREUSES
                               THEN Some(last_conso_heures_creuses)
                               ELSE Some(last_conso_heures_pleines)]]_vars

\* C3: after a midnight notification the configuration file holds the last
\* counters under the two previous-consumption keys.
C3_BaselinePersisted ==
    [][MidnightNotified =>
          /\ config_file'[KEY_CREUSES] = Some(last_conso_heures_creuses)
          /\ config_file'[KEY_PLEINES] = Some(last_conso_heures_pleines)]_vars

\* C4: consumption is neither lost nor counted twice: each rollover adds to
\* the sum of the emitted deltas what the counters gained over the baseline,
\* and moves the baseline to the counters, so that over any run of rollovers
\* the sum of the deltas is the last counter minus the first baseline.
C4_DeltasTelescope ==
    [][(MidnightNotified /\ ~in_midnight /\ BaselinePresent) =>
          /\ SumCreuses(consumption_events') - last_conso_heures_creuses
                = SumCreuses(consumption_events) - Get(config_file[KEY_CREUSES])
          /\ SumPleines(consumption_events') - last_conso_heures_pleines
                = SumPleines(consumption_events) - Get(config_file[KEY_PLEINES])
          /\ BaselinePresent'
          /\ Get(config_file'[KEY_CREUSES]) = last_conso_heures_creuses
          /\ Get(config_file'[KEY_PLEINES]) = last_conso_heures_pleines]_vars

\* C5: one consumption event per midnight minute: the first (0, 0)
\* notification of a minute emits one event, a further one in the same minute
\* and a notification of any other time emit none.
C5_OncePerDay ==
    [][EventStep =>
          Len(consumption_events') =
             Len(consumption_events)
               + (IF ~in_midnight /\ in_midnight' THEN 1 ELSE 0)]_vars

\* C6: a task call in which get_frame() raises changes neither the last
\* counters nor the persisted baselines nor last_raw, and emits no power event.
C6_FrameErrorKeepsState ==
    [][FrameErrorStep =>
          /\ UNCHANGED ConsumptionState
          /\ UNCHANGED <<has_last_raw, last_raw>>
          /\ power_events' = <<>>
          /\ pc' = "idle"]_vars

C6_Witness ==
    /\ cycle.state = "exception"
    /\ cycle.read
    /\ cycle.scheme = "none"
    /\ has_last_raw
    /\ last_raw # EmptyDict
    /\ last_conso_heures_creuses = 620

\* C7: no step of a task call lets an exception out: the call is either still
\* going on or has ended, logged or not, with the position back to idle, and
\* the Task is as it was; a call that is going on can always take its next
\* step, and an idle running Task can always start the next call, also after
\* a call that failed.
C7_CycleReturnsToIdle ==
    /\ [][TaskStep =>
             /\ cycle'.state \in {"running", "done", "exception"}
             /\ (cycle'.state = "running") = (pc' # "idle")
             /\ teleinfo_task' = teleinfo_task]_vars
    /\ [](pc # "idle" => ENABLED (TeleinfoTaskPleines \/ TeleinfoTaskIntensity))
    /\ []((teleinfo_task = "running" /\ pc = "idle") =>
             ENABLED (\E outcome \in ReadOutcomes : TeleinfoTask(outcome)))

C7_Witness ==
    /\ cycle.state = "exception"
    /\ pc = "idle"
    /\ teleinfo_task = "running"

\* The spec's table of schemes, in its order of priority.
SchemeOrder == <<"hchc", "ejp", "tempo", "base">>
LabelsOf(scheme) ==
    CASE scheme = "hchc"  -> {"HCHC", "HCHP"}
      [] scheme = "ejp"   -> {"EJPHN", "EJPHPM"}
      [] scheme = "tempo" -> {"BBRHCJB", "BBRHPJB", "BBRHCJW", "BBRHPJW",
                              "BBRHCJR", "BBRHPJR"}
      [] scheme = "base"  -> {"BASE"}
FirstFullMatch(keys) ==
    LET full == {i \in 1..Len(SchemeOrder) : LabelsOf(SchemeOrder[i]) \subseteq keys}
    IN  IF full = {} THEN "none"
        ELSE SchemeOrder[CHOOSE i \in full : \A j \in full : i <= j]
OffPeakLabels(scheme) == {l \in LabelsOf(scheme) : l \notin {"HCHP", "EJPHPM", "BBRHPJB", "BBRHPJW", "BBRHPJR"}}
RECURSIVE SumOf(_, _)
SumOf(raw, labels) ==
    IF labels = {} THEN 0
    ELSE LET l == CHOOSE x \in labels : TRUE
         IN  int(raw[l]).value + SumOf(raw, labels \ {l})

\* C8: the counters a completed task call has recorded are those of the first
\* scheme, in the order PeakOffPeak, EJP, Tempo, Base, whose labels the frame
\* all holds; a scheme the frame holds in part is passed over.
C8_FirstFullMatchWins ==
    (pc = "idle" /\ cycle.state = "done" /\ cycle.read /\ last_raw # EmptyDict) =>
        LET scheme == FirstFullMatch(DOMAIN last_raw)
        IN  /\ cycle.scheme = scheme
            /\ scheme # "none" =>
                 /\ last_conso_heures_creuses = SumOf(last_raw, OffPeakLabels(scheme))
                 /\ last_conso_heures_pleines =
                       SumOf(last_raw, LabelsOf(scheme) \ OffPeakLabels(scheme))

C8_Witness ==
    /\ pc = "idle"
    /\ cycle.state = "done"
    /\ cycle.read
    /\ {"HCHC", "HCHP", "BASE"} \subseteq DOMAIN last_raw
    /\ cycle.scheme = "hchc"
    /\ last_conso_heures_creuses = 10
    /\ last_conso_heures_pleines = 20

\* C9: get_teleinfo never fails: it returns last_raw, and the empty dict when
\* nothing has been read yet.
C9_GetTeleinfoNeverFails ==
    [][GetTeleinfo =>
          /\ call_result'.kind = "returned"
          /\ call_result'.value = IF has_last_raw THEN last_raw ELSE EmptyDict]_vars

\* C10: with no device path, a tick of the task reads nothing, changes neither
\* the last counters nor last_raw and emits no power event; and the port is
\* set only by _configure.
C10_NoPortNoPolling ==
    [][/\ (IsNone(port) /\ TaskStep) =>
             /\ ~cycle'.read
             /\ pc' = "idle"
             /\ UNCHANGED <<last_conso_heures_creuses, last_conso_heures_pleines,
                            has_last_raw, last_raw>>
             /\ power_events' = <<>>
       /\ (IsNone(port) /\ ~IsNone(port')) =>
             (module_state = "constructed" /\ module_state' # "constructed")]_vars

C10_Witness ==
    /\ module_state = "configured"
    /\ IsNone(port)
    /\ teleinfo_task = "running"
    /\ cycle.state = "done"
    /\ ~cycle.read
    /\ ~has_last_raw

\* A task call has ended, and last_raw is the frame it was given.
CycleEndedOnFrame ==
    pc = "idle" /\ cycle.decoded /\ cycle.state \in {"done", "exception"}

\* The frame holds PAPP and int() accepts its text.
PappIsInteger(raw) == "PAPP" \in DOMAIN raw /\ int(raw["PAPP"]).ok

\* Every counter text of the scheme the frame is handled as is accepted by int().
CountersParse(raw) ==
    \A l \in (IF FirstFullMatch(DOMAIN raw) = "none" THEN {}
              ELSE LabelsOf(FirstFullMatch(DOMAIN raw))) : int(raw[l]).ok

\* The power event the spec describes for a frame.
ExpectedPower(raw) ==
    [power       |-> int(raw["PAPP"]).value * 220,
     currentmode |-> IF "PTEC" \in DOMAIN raw THEN <<raw["PTEC"]>> ELSE <<>>,
     nextmode    |-> IF "DEMAIN" \in DOMAIN raw THEN <<raw["DEMAIN"]>> ELSE <<>>]

\* C11 as stated: every call given a frame with an integer PAPP has sent
\* exactly one power event, PAPP * 220 with the modes of PTEC and DEMAIN.
C11_PowerEventForEveryPapp ==
    (CycleEndedOnFrame /\ PappIsInteger(last_raw)) =>
        /\ Len(power_events) = 1
        /\ power_events[1].params = ExpectedPower(last_raw)

\* C11 amended: every call given a frame with an integer PAPP, and whose
\* counters of the matched scheme are all accepted by int(), has sent exactly
\* one power event, PAPP * 220 with the modes of PTEC and DEMAIN (none when
\* the label is absent).
C11_PowerEventWhenCountersParse ==
    (CycleEndedOnFrame /\ PappIsInteger(last_raw) /\ CountersParse(last_raw)) =>
        /\ cycle.state = "done"
        /\ Len(power_events) = 1
        /\ power_events[1].params = ExpectedPower(last_raw)

C11_Witness ==
    /\ CycleEndedOnFrame
    /\ DOMAIN last_raw = {"PAPP", "PTEC"}
    /\ Len(power_events) = 1
    /\ power_events[1].params.power = 220000
    /\ power_events[1].params.currentmode = <<(<<"H", "C", ".", ".">>)>>
    /\ power_events[1].params.nextmode = <<>>

\* C12: a call whose frame matches a scheme and holds no PAPP sends no power
\* event and records the counters of the frame; and whenever a call has sent
\* a power event, the frame it was given holds PAPP.
C12_NoPappNoPowerEvent ==
    /\ (CycleEndedOnFrame /\ cycle.state = "done" /\ cycle.scheme # "none"
          /\ "PAPP" \notin DOMAIN last_raw) =>
            /\ power_events = <<>>
            /\ last_conso_heures_creuses = CreusesOf(last_raw, cycle.scheme).value
            /\ last_conso_heures_pleines = PleinesOf(last_raw, cycle.scheme).value
    /\ power_events # <<>> =>
            /\ cycle.decoded
            /\ "PAPP" \in DOMAIN last_raw
            /\ Len(power_events) = 1

C12_Witness ==
    /\ CycleEndedOnFrame
    /\ cycle.state = "done"
    /\ DOMAIN last_raw = {"HCHC", "HCHP"}
    /\ power_events = <<>>
    /\ last_conso_heures_creuses = 620
    /\ last_conso_heures_pleines = 20

\* C13: a call that has handled its frame as Tempo has recorded the sum of
\* the three HC counters as off-peak and of the three HP counters as peak.
C13_TempoSums ==
    (CycleEndedOnFrame /\ cycle.state = "done" /\ cycle.scheme = "tempo") =>
        /\ TEMPO_KEYS \subseteq DOMAIN last_raw
        /\ ~(HCHC_KEYS \subseteq DOMAIN last_raw)
        /\ ~(EJP_KEYS \subseteq DOMAIN last_raw)
        /\ last_conso_heures_creuses =
              int(last_raw["BBRHCJB"]).value + int(last_raw["BBRHCJW"]).value
                + int(last_raw["BBRHCJR"]).value
        /\ last_conso_heures_pleines =
              int(last_raw["BBRHPJB"]).value + int(last_raw["BBRHPJW"]).value
                + int(last_raw["BBRHPJR"]).value

C13_Witness ==
    /\ CycleEndedOnFrame
    /\ cycle.state = "done"
    /\ cycle.scheme = "tempo"
    /\ last_raw["BBRHCJB"] = <<"1", "0">>
    /\ last_raw["BBRHCJW"] = <<"2", "0">>
    /\ last_raw["BBRHCJR"] = <<"3", "0">>
    /\ last_raw["BBRHPJB"] = <<"1">>
    /\ last_raw["BBRHPJW"] = <<"2">>
    /\ last_raw["BBRHPJR"] = <<"3">>
    /\ last_conso_heures_creuses = 60
    /\ last_conso_heures_pleines = 6

\* The frame matches a scheme, and a counter of that scheme is not the text
\* of a non-negative integer.
InvalidCounter(raw) ==
    /\ FirstFullMatch(DOMAIN raw) # "none"
    /\ \E l \in LabelsOf(FirstFullMatch(DOMAIN raw)) :
            ~int(raw[l]).ok \/ int(raw[l]).value < 0

\* C14: no step of a task call given a frame that matches a scheme with an
\* invalid counter value (text that is no integer, or a negative integer)
\* changes last_conso_heures_creuses or last_conso_heures_pleines: neither a
\* part of the frame nor a negative value is recorded.
C14_InvalidValueChangesNothing ==
    [][(TaskStep /\ cycle'.decoded /\ InvalidCounter(last_raw')) =>
            UNCHANGED <<last_conso_heures_creuses, last_conso_heures_pleines>>]_vars

\* The frame is not empty and holds the labels of no scheme in full.
NoRecognizedScheme(raw) ==
    raw # EmptyDict /\ FirstFullMatch(DOMAIN raw) = "none"

\* C15 as stated: no step of a task call given a non-empty frame that matches
\* no scheme changes the counters or the stored baselines, and none sends a
\* power event, whether or not the frame holds PAPP.
C15_NoSchemeNoPowerEvent ==
    [][(TaskStep /\ cycle'.decoded /\ NoRecognizedScheme(last_raw')) =>
            /\ UNCHANGED ConsumptionState
            /\ power_events' = <<>>]_vars

\* C15 amended: no step of a task call given a non-empty frame that matches
\* no scheme changes the counters or the stored baselines, and the call ends
\* having sent the power event of the frame's PAPP when PAPP is there with an
\* integer value, and no event otherwise.
C15_NoSchemeKeepsCountersPowerFromPapp ==
    [][(TaskStep /\ cycle'.decoded /\ NoRecognizedScheme(last_raw')) =>
            /\ UNCHANGED ConsumptionState
            /\ teleinfo_task' = teleinfo_task
            /\ cycle'.scheme = "none"
            /\ pc' = "idle" =>
                 power_events' =
                    IF PappIsInteger(last_raw')
                    THEN <<[params |-> ExpectedPower(last_raw'),
                            device_id |-> teleinfo_uuid]>>
                    ELSE <<>>]_vars

C15_Witness ==
    /\ CycleEndedOnFrame
    /\ cycle.state = "done"
    /\ cycle.scheme = "none"
    /\ DOMAIN last_raw = {"PAPP", "DEMAIN"}
    /\ Len(power_events) = 1
    /\ power_events[1].params.power = 220000
    /\ power_events[1].params.nextmode = <<(<<"B", "L", "E", "U">>)>>

\* C16: a midnight notification is handled only between two task calls,
\* never while a call is between its two assignments of the counters.
C16_RolloverSerializedWithPoll ==
    [][MidnightNotified => pc = "idle"]_vars

\* C17: a midnight notification whose handling fails on the stored baselines
\* returns without an exception, leaves the task as it was, and has sent the
\* consumption event of the day.
C17_StoreFailureContained ==
    [][(MidnightNotified /\ ~IsNone(MidnightBody.exc)) =>
            /\ call_result'.kind = "returned"
            /\ teleinfo_task' = teleinfo_task
            /\ Len(consumption_events') = Len(consumption_events) + 1]_vars

\* The reading the spec's table extracts from a frame that matches a scheme:
\* for Base the off-peak counter is BASE and the peak counter is 0.
ReadingOf(raw) ==
    LET scheme == FirstFullMatch(DOMAIN raw)
    IN  [off_peak |-> SumOf(raw, OffPeakLabels(scheme)),
         peak     |-> IF scheme = "base" THEN 0
                      ELSE SumOf(raw, LabelsOf(scheme) \ OffPeakLabels(scheme))]

\* C18: when a task call has made its two assignments of the counters, both
\* counters are those of the reading of the call's frame, whatever they were
\* before (a Base frame records a peak counter of 0, a smaller reading
\* replaces a larger one), so that a frame recorded again leaves them as they
\* are.
C18_RecordIsLastWriteWins ==
    [][(TeleinfoTaskPleines /\ pc' = "intensity") =>
            /\ last_conso_heures_creuses' = ReadingOf(last_raw).off_peak
            /\ last_conso_heures_pleines' = ReadingOf(last_raw).peak
            /\ (<<last_conso_heures_creuses, last_conso_heures_pleines>>
                  = <<ReadingOf(last_raw).off_peak, ReadingOf(last_raw).peak>>) =>
                 UNCHANGED <<last_conso_heures_creuses, last_conso_heures_pleines>>]_vars

\* A Base frame is being recorded over a peak counter of 20 left by an
\* earlier frame: the off-peak counter is written, the peak one is next.
C18_Witness ==
    /\ pc = "pleines"
    /\ cycle.scheme = "base"
    /\ cycle.decoded
    /\ last_conso_heures_creuses = 50
    /\ last_conso_heures_pleines = 20

\* C19: _restart_teleinfo_task on a module whose task is running leaves a
\* running task.
C19_RestartLeavesTaskRunning ==
    [][(RestartTeleinfoTask /\ teleinfo_task = "running") =>
            teleinfo_task' = "running"]_vars

====
